---- MODULE Spec2Model ----
(***************************************************************************)
(* Verification model of engine_entities: the Tree Builder                 *)
(* (hierarchical_tree.py), the walk of the Engine Data Compiler and the    *)
(* Reference Compiler (engine_data.py), and the start_generation handler   *)
(* (app.py) with its call of create_hierarchical_doctype_structure         *)
(* (json_to_hierarquical.py).                                              *)
(*                                                                         *)
(* Text is modelled as a sequence of one-character strings, so that        *)
(* str.replace, normalize_string and the regular expression of             *)
(* replace_recursive are computed character by character.                  *)
(* Python objects that are mutated through shared references (the node     *)
(* dicts and their "children" lists) live in an explicit heap: nodes and   *)
(* lists are addressed by their index.                                     *)
(***************************************************************************)
EXTENDS Integers, Sequences, FiniteSets, TLC

VARIABLES
    pc,                 \* position of the run
    all_doctypes,       \* catalogue: [order: Seq(name), fields: name -> Seq(FieldMeta)]
    specified_mapping,  \* Seq([child, parent])
    translations,       \* key -> description, as a set of [key, text]
    nodes,              \* heap of node dicts
    lists,              \* heap of list objects (the "children" lists)
    entities,           \* hierarchical_data["entities"]: Seq(node id)
    processed_doctypes, \* set of names
    raised,             \* "" or the name of the exception that ended the run
    childs_name,        \* data_to_engine: the key of an item's child heads
    paths,              \* data_to_engine: the paths touched by the walk, in order
    references,         \* references["referencia"][0]: Seq([code, path])
    result,             \* data_to_engine: the walk result, rewritten in place
    previous,           \* result as it was before the last replace_paths
    all_doctype_data,   \* data_to_engine: Seq([doctype, data]), one entry per dict
    formulas,           \* data_to_engine: the formula groups
    doctypes_index,     \* data_to_engine: path -> read cursor
    handler_pc,         \* app.py: handler -> position in handle_start_generation
    emitted,            \* app.py: handler -> the events emitted to its client
    generated_json_data,   \* app.py: the global; <<>> is None, else <<structure>>
    entity_structure,      \* app.py: handler -> the local entity_structure
    child_parent_mapping   \* app.py: handler -> the local child_parent_mapping

compileVars == <<childs_name, paths, references, result, previous>>

walkVars == <<all_doctype_data, formulas, doctypes_index>>

appVars == <<handler_pc, emitted, generated_json_data, entity_structure,
             child_parent_mapping>>

\* the start_generation events that are handled, each by its own thread
MaxHandlers == 2
Handlers == 1..MaxHandlers

\* no start_generation event has arrived
AppIdle ==
    /\ handler_pc = [h \in Handlers |-> "idle"]
    /\ emitted = [h \in Handlers |-> <<>>]
    /\ generated_json_data = <<>>
    /\ entity_structure = [h \in Handlers |-> <<>>]
    /\ child_parent_mapping = [h \in Handlers |-> <<>>]

treeVars == <<all_doctypes, specified_mapping, translations, nodes, lists,
              entities, processed_doctypes, raised>>

(***************************************************************************)
(* Text                                                                    *)
(***************************************************************************)
None == <<"None">>

UpperChars == {"A", "B", "C", "D", "N", "Q", "T", "Z"}
LowerChars == {"a", "b", "c", "d", "e", "l", "n", "o", "q", "t", "v", "z"}
DigitChars == {"0", "1", "2", "3", "4", "5", "6", "7", "8", "9"}

\* str.lower() on one character
LowerChar(c) ==
    CASE c = "A" -> "a" [] c = "B" -> "b" [] c = "C" -> "c" [] c = "D" -> "d"
      [] c = "N" -> "n" [] c = "Q" -> "q" [] c = "T" -> "t" [] c = "Z" -> "z"
      [] OTHER -> c

\* \w of the re module, on the characters of the model
IsWordChar(c) == c \in UpperChars \cup LowerChars \cup DigitChars \cup {"_"}

\* [a-zA-Z0-9_]
IsAsciiWord(c) == c \in UpperChars \cup LowerChars \cup DigitChars \cup {"_"}

\* unicodedata.normalize('NFKD', c).encode('ASCII', 'ignore').decode('ASCII')
AsciiFold(c) ==
    CASE c = "ó" -> <<"o">>
      [] c = "ß" -> <<>>
      [] OTHER -> <<c>>

RECURSIVE FlatMap(_, _)
FlatMap(s, i) ==
    IF i > Len(s) THEN <<>> ELSE AsciiFold(s[i]) \o FlatMap(s, i + 1)

\* str.replace(" ", "_")
Key(name) == [i \in 1..Len(name) |-> IF name[i] = " " THEN "_" ELSE name[i]]

RECURSIVE Collapse(_)
\* re.sub(r'_{2,}', '_', s)
Collapse(s) ==
    IF Len(s) < 2 THEN s
    ELSE IF s[1] = "_" /\ s[2] = "_" THEN Collapse(Tail(s))
    ELSE <<s[1]>> \o Collapse(Tail(s))

RECURSIVE StripLeft(_)
StripLeft(s) == IF s # <<>> /\ s[1] = "_" THEN StripLeft(Tail(s)) ELSE s

RECURSIVE StripRight(_)
StripRight(s) ==
    IF s # <<>> /\ s[Len(s)] = "_" THEN StripRight(SubSeq(s, 1, Len(s) - 1)) ELSE s

normalize_string(s) ==
    IF s = <<>> THEN <<>>
    ELSE LET folded == FlatMap(s, 1)
             under  == [i \in 1..Len(folded) |->
                           IF IsAsciiWord(folded[i]) THEN folded[i] ELSE "_"]
             strip  == StripRight(StripLeft(Collapse(under)))
         IN  [i \in 1..Len(strip) |-> LowerChar(strip[i])]

map_field_type(fieldtype) ==
    CASE fieldtype = "Data" -> "string"
      [] fieldtype = "Int" -> "numeric"
      [] fieldtype = "Table" -> "doctype"
      [] OTHER -> "string"

(***************************************************************************)
(* Inputs: the catalogue, the mandatory mappings and the translations.     *)
(* Every entity type carries one scalar field; relationship fields,        *)
(* mappings and translations are drawn from DeclPool, at most MaxDecl of   *)
(* them in one run.                                                        *)
(***************************************************************************)
MaxDecl == 3

TA == <<"A">>
TB == <<"B">>
TC == <<"C", " ", "D">>
TZ == <<"Z">>          \* never an entity type of the catalogue

TypeOrder == <<TA, TB, TC>>
TypeNames == {TA, TB, TC}

ScalarField ==
    [fieldname |-> <<"q">>, label |-> <<"Q">>, fieldtype |-> "Int", options |-> None]

\* a Table field of the owner whose options name the target
TableField(target) ==
    [fieldname |-> <<"t", "_">> \o normalize_string(target),
     label |-> <<"T", " ">> \o target, fieldtype |-> "Table", options |-> target]

\* a Table field without options
BareTableField ==
    [fieldname |-> <<"n">>, label |-> <<"N">>, fieldtype |-> "Table", options |-> None]

\* a Link field labelled with the name of the entity type it links to
LinkField(target) ==
    [fieldname |-> <<"l", "_">> \o normalize_string(target),
     label |-> target, fieldtype |-> "Link", options |-> target]

TranslatedB == <<" ", "N", "ó", "_", " ", "B", "ß">>

DeclPool ==
    <<[kind |-> "map", a |-> TA, b |-> TB], [kind |-> "map", a |-> TA, b |-> TC],
      [kind |-> "map", a |-> TA, b |-> TZ], [kind |-> "map", a |-> TB, b |-> TA],
      [kind |-> "map", a |-> TB, b |-> TC], [kind |-> "map", a |-> TB, b |-> TZ],
      [kind |-> "map", a |-> TC, b |-> TA], [kind |-> "map", a |-> TC, b |-> TB],
      [kind |-> "map", a |-> TC, b |-> TZ],
      [kind |-> "table", a |-> TA, b |-> TA], [kind |-> "table", a |-> TA, b |-> TB],
      [kind |-> "table", a |-> TA, b |-> TC], [kind |-> "table", a |-> TB, b |-> TA],
      [kind |-> "table", a |-> TB, b |-> TB], [kind |-> "table", a |-> TB, b |-> TC],
      [kind |-> "table", a |-> TC, b |-> TA], [kind |-> "table", a |-> TC, b |-> TB],
      [kind |-> "table", a |-> TC, b |-> TC],
      [kind |-> "link", a |-> TA, b |-> TB], [kind |-> "link", a |-> TA, b |-> TC],
      [kind |-> "link", a |-> TB, b |-> TA], [kind |-> "link", a |-> TB, b |-> TC],
      [kind |-> "link", a |-> TC, b |-> TA], [kind |-> "link", a |-> TC, b |-> TB],
      [kind |-> "bare", a |-> TA, b |-> None], [kind |-> "bare", a |-> TC, b |-> None],
      [kind |-> "tr", a |-> Key(TB), b |-> TranslatedB]>>

\* the increasing sequences of at most k declarations (indices of DeclPool
\* from lo on), each also reversed: declarations are listed in either order
RECURSIVE IncSeqs(_, _)
IncSeqs(lo, k) ==
    IF k = 0 THEN {<<>>}
    ELSE {<<>>} \cup UNION {{<<i>> \o s : s \in IncSeqs(i + 1, k - 1)} :
                               i \in lo..Len(DeclPool)}

Reverse(s) == [i \in 1..Len(s) |-> s[Len(s) + 1 - i]]

DeclSeqs(k) == IncSeqs(1, k) \cup {Reverse(s) : s \in IncSeqs(1, k)}

RECURSIVE FieldsOf(_, _, _)
FieldsOf(owner, ds, i) ==
    IF i > Len(ds) THEN <<>>
    ELSE LET d == DeclPool[ds[i]]
             f == CASE d.kind = "table" -> <<TableField(d.b)>>
                    [] d.kind = "link" -> <<LinkField(d.b)>>
                    [] d.kind = "bare" -> <<BareTableField>>
                    [] OTHER -> <<>>
         IN  (IF d.a = owner THEN f ELSE <<>>) \o FieldsOf(owner, ds, i + 1)

RECURSIVE MappingsOf(_, _)
MappingsOf(ds, i) ==
    IF i > Len(ds) THEN <<>>
    ELSE LET d == DeclPool[ds[i]]
         IN  (IF d.kind = "map" THEN <<[child |-> d.a, parent |-> d.b]>> ELSE <<>>)
             \o MappingsOf(ds, i + 1)

TranslationsOf(ds) ==
    {[key |-> DeclPool[ds[i]].a, text |-> DeclPool[ds[i]].b] :
        i \in {j \in 1..Len(ds) : DeclPool[ds[j]].kind = "tr"}}

CatalogueOf(ds) ==
    [order |-> TypeOrder,
     fields |-> [t \in TypeNames |-> <<ScalarField>> \o FieldsOf(t, ds, 1)]]

\* the mandatory-mapping list has no cycle: no type is its own ancestor
RECURSIVE Ancestors(_, _, _)
Ancestors(m, t, fuel) ==
    LET ps == {m[i].parent : i \in {j \in 1..Len(m) : m[j].child = t}}
    IN  IF fuel = 0 THEN ps
        ELSE ps \cup UNION {Ancestors(m, p, fuel - 1) : p \in ps}

Acyclic(m) == \A i \in 1..Len(m) : m[i].child \notin Ancestors(m, m[i].child, Len(m))

(***************************************************************************)
(* Lookups of build_tree                                                   *)
(***************************************************************************)
InCatalogue(name) == \E i \in 1..Len(all_doctypes.order) : all_doctypes.order[i] = name

Fields(name) == all_doctypes.fields[name]

\* translations.get(key, name) if translations else name
Translate(key, name) ==
    IF \E t \in translations : t.key = key
    THEN (CHOOSE t \in translations : t.key = key).text
    ELSE name

RECURSIVE SelectSeq2(_, _, _, _)
\* the b-values (or a-values) of the mappings whose other side is `name`, in list order
SelectSeq2(m, name, side, i) ==
    IF i > Len(m) THEN <<>>
    ELSE (IF side = "children" /\ m[i].parent = name THEN <<m[i].child>>
          ELSE IF side = "parents" /\ m[i].child = name THEN <<m[i].parent>>
          ELSE <<>>) \o SelectSeq2(m, name, side, i + 1)

\* mandatory_children[name] and mandatory_parents[name]; <<>> when the key is absent
mandatory_children(name) == SelectSeq2(specified_mapping, name, "children", 1)
mandatory_parents(name) == SelectSeq2(specified_mapping, name, "parents", 1)

InSeq(x, s) == \E i \in 1..Len(s) : s[i] = x

(***************************************************************************)
(* The heap.  A build state h is [nodes, lists, processed, err, roots]:     *)
(* node dicts and list objects are allocated at the end of their sequence, *)
(* so the id of the next object is Len + 1; roots is the "entities" list.  *)
(***************************************************************************)
AllocList(h, s) == [h EXCEPT !.lists = Append(@, s)]
AllocNode(h, n) == [h EXCEPT !.nodes = Append(@, n)]
ListAppend(h, l, x) == [h EXCEPT !.lists[l] = Append(@, x)]
Fail(h, e) == IF h.err = "" THEN [h EXCEPT !.err = e] ELSE h

ChildrenOf(h, n) == h.lists[h.nodes[n].children]

HasChildKey(h, n, key) ==
    \E i \in 1..Len(ChildrenOf(h, n)) : h.nodes[ChildrenOf(h, n)[i]].key = key

\* the dict literal of an entity node (hierarchical_tree.py lines 91-100)
EntityDict(name, fieldname_data, listId) ==
    [key |-> Key(name),
     description |-> Translate(Key(name), name),
     fieldname |-> name,
     fieldname_data |-> fieldname_data,
     type |-> "doctype",
     path |-> normalize_string(Translate(Key(name), name)),
     dragandrop |-> FALSE,
     children |-> listId]

\* the dict literal of a field node (lines 110-119); FieldMeta has no
\* "fieldname_data" key, so field.get("fieldname_data", "") is ""
FieldDict(field, listId) ==
    [key |-> Key(field.label),
     description |-> field.label,
     fieldname |-> field.fieldname,
     fieldname_data |-> <<>>,
     type |-> map_field_type(field.fieldtype),
     path |-> normalize_string(field.label),
     dragandrop |-> TRUE,
     children |-> listId]

IsRelationField(field) == field.options # None /\ field.fieldtype = "Table"

\* one regular field: a new field node with its own empty children list,
\* appended to the children of ent
AddField(h, ent, field) ==
    ListAppend(AllocNode(AllocList(h, <<>>), FieldDict(field, Len(h.lists) + 1)),
               h.nodes[ent].children, Len(h.nodes) + 1)

RECURSIVE AddRegularFields(_, _, _, _)
\* "First add all regular fields" (lines 102-121 and 229-247)
AddRegularFields(h, ent, fields, i) ==
    IF i > Len(fields) THEN h
    ELSE IF IsRelationField(fields[i]) THEN AddRegularFields(h, ent, fields, i + 1)
    ELSE AddRegularFields(AddField(h, ent, fields[i]), ent, fields, i + 1)

\* a new entity node with its own empty children list; the type is processed
NewEntity(h, name, fieldname_data) ==
    AllocNode(AllocList([h EXCEPT !.processed = @ \cup {name}], <<>>),
              EntityDict(name, fieldname_data, Len(h.lists) + 1))

\* parent["children"].append(child), unless an exception came first
AppendChild(h, ent, c) ==
    IF h.err # "" THEN h ELSE ListAppend(h, h.nodes[ent].children, c)

\* a name that is twice on the call stack recurses for ever: RecursionError
DepthLimit == Len(all_doctypes.order)

RECURSIVE process_doctype_fields(_, _, _, _)
RECURSIVE MandatoryLoop(_, _, _, _, _, _)
RECURSIVE TableLoop(_, _, _, _, _, _)

\* the child entity of one mandatory mapping (lines 125-166 and 251-292);
\* nested is TRUE in process_doctype_fields, where fieldname_data is read from
\* the loop variable `field` left by the first loop
MandatoryStep(h, ent, name, nested, depth, child) ==
    IF HasChildKey(h, ent, Key(child)) \/ ~InCatalogue(child) THEN h
    ELSE IF nested /\ Fields(name) = <<>> THEN Fail(h, "UnboundLocalError")
    ELSE AppendChild(process_doctype_fields(NewEntity(h, child, <<>>),
                                            Len(h.nodes) + 1, child, depth + 1),
                     ent, Len(h.nodes) + 1)

\* "Now handle mandatory children" (lines 123-166 and 249-292)
MandatoryLoop(h, ent, name, nested, depth, i) ==
    IF h.err # "" \/ i > Len(mandatory_children(name)) THEN h
    ELSE MandatoryLoop(MandatoryStep(h, ent, name, nested, depth,
                                     mandatory_children(name)[i]),
                       ent, name, nested, depth, i + 1)

\* the child entity of one Table field (lines 171-219 and 296-348); the
\* fourth skip and the empty fieldname_data are those of process_doctype_fields
TableStep(h, ent, name, nested, depth, field) ==
    IF \/ ~IsRelationField(field)
       \/ ~InCatalogue(field.options)
       \/ InSeq(field.options, mandatory_children(name))
       \/ (mandatory_parents(field.options) # <<>>
             /\ ~InSeq(name, mandatory_parents(field.options)))
       \/ (nested /\ HasChildKey(h, ent, Key(field.options)))
    THEN h
    ELSE AppendChild(
             process_doctype_fields(
                 NewEntity(h, field.options,
                           IF nested THEN <<>> ELSE field.fieldname),
                 Len(h.nodes) + 1, field.options, depth + 1),
             ent, Len(h.nodes) + 1)

\* "Now handle relationships based on options" (lines 168-219 and 294-348)
TableLoop(h, ent, name, nested, depth, i) ==
    IF h.err # "" \/ i > Len(Fields(name)) THEN h
    ELSE TableLoop(TableStep(h, ent, name, nested, depth, Fields(name)[i]),
                   ent, name, nested, depth, i + 1)

process_doctype_fields(h, ent, name, depth) ==
    IF depth > DepthLimit THEN Fail(h, "RecursionError")
    ELSE IF ~InCatalogue(name) THEN h
    ELSE TableLoop(
             MandatoryLoop(AddRegularFields(h, ent, Fields(name), 1),
                           ent, name, TRUE, depth, 1),
             ent, name, TRUE, depth, 1)

\* the body of create_doctype_entity for the new entity node e
FillEntity(h, e, name) ==
    IF InCatalogue(name)
    THEN TableLoop(
             MandatoryLoop(AddRegularFields(h, e, Fields(name), 1),
                           e, name, FALSE, 0, 1),
             e, name, FALSE, 0, 1)
    ELSE MandatoryLoop(h, e, name, FALSE, 0, 1)

\* create_doctype_entity: the new entity node is Len(h.nodes) + 1
create_doctype_entity(h, name) ==
    FillEntity(NewEntity(h, name, <<>>), Len(h.nodes) + 1, name)

\* hierarchical_data["entities"].append(entity), unless an exception came first
AppendRoot(h, e) == IF h.err # "" THEN h ELSE [h EXCEPT !.roots = Append(@, e)]

RECURSIVE CreateRoots(_, _, _)
\* the two loops of build_tree (lines 47-72); first is TRUE in the first one
CreateRoots(h, first, i) ==
    IF h.err # "" \/ i > Len(all_doctypes.order) THEN h
    ELSE IF \/ first /\ mandatory_parents(all_doctypes.order[i]) # <<>>
            \/ all_doctypes.order[i] \in h.processed
    THEN CreateRoots(h, first, i + 1)
    ELSE CreateRoots(AppendRoot(create_doctype_entity(h, all_doctypes.order[i]),
                                Len(h.nodes) + 1),
                     first, i + 1)

(***************************************************************************)
(* apply_specified_mappings                                                *)
(***************************************************************************)
RECURSIVE FilterKey(_, _, _, _)
\* [c for c in children if c["key"] != key]
FilterKey(h, s, key, i) ==
    IF i > Len(s) THEN <<>>
    ELSE (IF h.nodes[s[i]].key # key THEN <<s[i]>> ELSE <<>>)
         \o FilterKey(h, s, key, i + 1)

\* node["children"] = [c for c in node["children"] if c["key"] != key]:
\* the node is bound to a new list object
RebindFiltered(h, n, key) ==
    LET l == Len(h.lists) + 1
        h1 == AllocList(h, FilterKey(h, ChildrenOf(h, n), key, 1))
    IN  [h1 EXCEPT !.nodes[n].children = l]

RECURSIVE remove_entity_from_children(_, _, _, _)
remove_entity_from_children(h, l, key_to_remove, i) ==
    IF i > Len(h.lists[l]) THEN h
    ELSE LET child == h.lists[l][i]
             h1 == RebindFiltered(h, child, key_to_remove)
             h2 == remove_entity_from_children(h1, h1.nodes[child].children,
                                               key_to_remove, 1)
         IN  remove_entity_from_children(h2, l, key_to_remove, i + 1)

RECURSIVE ScrubRoots(_, _, _, _)
\* lines 412-419, for one mapping
ScrubRoots(h, roots, mapping, i) ==
    IF i > Len(roots) THEN h
    ELSE LET entity == roots[i] IN
         IF h.nodes[entity].key # Key(mapping.parent)
         THEN LET h1 == RebindFiltered(h, entity, Key(mapping.child))
                  h2 == remove_entity_from_children(h1, h1.nodes[entity].children,
                                                    Key(mapping.child), 1)
              IN  ScrubRoots(h2, roots, mapping, i + 1)
         ELSE ScrubRoots(h, roots, mapping, i + 1)

RECURSIVE ScrubAll(_, _, _)
\* "First pass" (lines 407-419)
ScrubAll(h, roots, i) ==
    IF i > Len(specified_mapping) THEN h
    ELSE ScrubAll(ScrubRoots(h, roots, specified_mapping[i], 1), roots, i + 1)

NotFound == 0
Overflow == -1

RECURSIVE find_entity_in_children(_, _, _, _)
RECURSIVE FindInList(_, _, _, _, _)
\* depth-first, pre-order; NotFound for None, Overflow when the search runs
\* round a cycle of the heap (RecursionError)
find_entity_in_children(h, entity, key, depth) ==
    IF depth > Len(h.nodes) THEN Overflow
    ELSE IF h.nodes[entity].key = key THEN entity
    ELSE FindInList(h, ChildrenOf(h, entity), key, depth + 1, 1)

FindInList(h, s, key, depth, i) ==
    IF i > Len(s) THEN NotFound
    ELSE LET found == find_entity_in_children(h, s[i], key, depth) IN
         IF found # NotFound THEN found
         ELSE FindInList(h, s, key, depth, i + 1)

find_entity_by_key(h, roots, key) == FindInList(h, roots, key, 0, 1)

\* lines 430-452 for one mapping, parent and child found
AttachCopy(h, mapping, parent_entity, child_entity) ==
    IF HasChildKey(h, parent_entity, Key(mapping.child)) THEN h
    ELSE LET name == Translate(Key(mapping.child), mapping.child)
             c  == Len(h.nodes) + 1
             child_copy == [h.nodes[child_entity] EXCEPT
                               !.description = name,
                               !.path = normalize_string(name)]
             h1 == AllocNode(h, child_copy)
         IN  ListAppend(h1, h1.nodes[parent_entity].children, c)

RECURSIVE AttachAll(_, _, _)
\* "Now add the children to their correct parents" (lines 421-452)
AttachAll(h, roots, i) ==
    IF h.err # "" \/ i > Len(specified_mapping) THEN h
    ELSE LET mapping == specified_mapping[i]
             parent_entity == find_entity_by_key(h, roots, Key(mapping.parent))
             child_entity ==
                 IF parent_entity = Overflow THEN Overflow
                 ELSE find_entity_by_key(h, roots, Key(mapping.child))
         IN  IF parent_entity = Overflow \/ child_entity = Overflow
             THEN Fail(h, "RecursionError")
             ELSE IF parent_entity = NotFound \/ child_entity = NotFound
             THEN AttachAll(h, roots, i + 1)
             ELSE AttachAll(AttachCopy(h, mapping, parent_entity, child_entity),
                            roots, i + 1)

\* child_to_parent_map: the last mapping of a child wins (lines 399-403)
InChildToParentMap(name) == mandatory_parents(name) # <<>>
child_to_parent_map(name) ==
    mandatory_parents(name)[Len(mandatory_parents(name))]

RECURSIVE FindByFieldname(_, _, _, _)
\* the first potential_parent of the list with that fieldname, or NotFound
FindByFieldname(h, s, name, i) ==
    IF i > Len(s) THEN NotFound
    ELSE IF h.nodes[s[i]].fieldname = name THEN s[i]
    ELSE FindByFieldname(h, s, name, i + 1)

RECURSIVE GrandchildrenToMove(_, _, _, _)
\* lines 480-501: the (i, grandchild, proper_parent) to move, in increasing i
GrandchildrenToMove(h, entity, child, i) ==
    LET gs == ChildrenOf(h, child) IN
    IF i > Len(gs) THEN <<>>
    ELSE LET grandchild == gs[i]
             name == h.nodes[grandchild].fieldname
             proper == IF InChildToParentMap(name)
                          /\ h.nodes[child].fieldname # child_to_parent_map(name)
                       THEN FindByFieldname(h, ChildrenOf(h, entity),
                                            child_to_parent_map(name), 1)
                       ELSE NotFound
         IN  (IF proper # NotFound
              THEN <<[i |-> i, grandchild |-> grandchild, proper_parent |-> proper]>>
              ELSE <<>>) \o GrandchildrenToMove(h, entity, child, i + 1)

\* list.pop(i) for the 1-based position i
PopAt(s, i) == SubSeq(s, 1, i - 1) \o SubSeq(s, i + 1, Len(s))

RECURSIVE MoveGrandchildren(_, _, _, _)
\* lines 505-519, in decreasing i
MoveGrandchildren(h, child, moves, k) ==
    IF k < 1 THEN h
    ELSE LET m  == moves[k]
             h1 == IF HasChildKey(h, m.proper_parent, h.nodes[m.grandchild].key)
                   THEN h
                   ELSE ListAppend(h, h.nodes[m.proper_parent].children, m.grandchild)
             l  == h1.nodes[child].children
             h2 == IF m.i <= Len(h1.lists[l])
                   THEN [h1 EXCEPT !.lists[l] = PopAt(@, m.i)]
                   ELSE h1
         IN  MoveGrandchildren(h2, child, moves, k - 1)

RECURSIVE enforce_specified_mappings_recursive(_, _, _)
RECURSIVE EnforceChildren(_, _, _, _, _)
enforce_specified_mappings_recursive(h, entity, depth) ==
    IF h.err # "" THEN h
    ELSE IF depth > Len(h.nodes) THEN Fail(h, "RecursionError")
    ELSE IF ChildrenOf(h, entity) = <<>> THEN h
    ELSE EnforceChildren(h, entity, h.nodes[entity].children, depth, 1)

\* "for child in entity.get('children', [])" iterates the list object l
EnforceChildren(h, entity, l, depth, i) ==
    IF h.err # "" \/ i > Len(h.lists[l]) THEN h
    ELSE LET child == h.lists[l][i]
             moves == GrandchildrenToMove(h, entity, child, 1)
             h1 == MoveGrandchildren(h, child, moves, Len(moves))
             h2 == enforce_specified_mappings_recursive(h1, child, depth + 1)
         IN  EnforceChildren(h2, entity, l, depth, i + 1)

RECURSIVE EnforceAll(_, _, _)
\* "Second pass" (lines 454-456)
EnforceAll(h, roots, i) ==
    IF h.err # "" \/ i > Len(roots) THEN h
    ELSE EnforceAll(enforce_specified_mappings_recursive(h, roots[i], 0), roots, i + 1)

RECURSIVE PruneRoots(_, _, _)
\* lines 458-461
PruneRoots(h, roots, i) ==
    IF i > Len(roots) THEN <<>>
    ELSE (IF \E j \in 1..Len(specified_mapping) :
                 h.nodes[roots[i]].key = Key(specified_mapping[j].child)
          THEN <<>> ELSE <<roots[i]>>) \o PruneRoots(h, roots, i + 1)

\* hierarchical_data["entities"] = [e for e in ... if e["key"] not in child_keys]
RebindRoots(h) ==
    IF h.err # "" THEN h ELSE [h EXCEPT !.roots = PruneRoots(h, h.roots, 1)]

apply_specified_mappings(h) ==
    RebindRoots(EnforceAll(AttachAll(ScrubAll(h, h.roots, 1), h.roots, 1),
                           h.roots, 1))

(***************************************************************************)
(* update_all_paths                                                        *)
(***************************************************************************)
RECURSIVE update_child_paths(_, _, _, _, _)
\* the loop of update_child_paths over the list object l of the parent
update_child_paths(h, l, parent_path, depth, i) ==
    IF h.err # "" \/ i > Len(h.lists[l]) THEN h
    ELSE IF depth > Len(h.nodes) THEN Fail(h, "RecursionError")
    ELSE LET child == h.lists[l][i]
             path == parent_path \o <<".">> \o normalize_string(h.nodes[child].description)
             h1 == [h EXCEPT !.nodes[child].path = path]
             h2 == update_child_paths(h1, h1.nodes[child].children, path, depth + 1, 1)
         IN  update_child_paths(h2, l, parent_path, depth, i + 1)

RECURSIVE update_all_paths(_, _, _)
update_all_paths(h, roots, i) ==
    IF h.err # "" \/ i > Len(roots) THEN h
    ELSE LET entity == roots[i]
             path == normalize_string(h.nodes[entity].description)
             h1 == [h EXCEPT !.nodes[entity].path = path]
             h2 == update_child_paths(h1, h1.nodes[entity].children, path, 1, 1)
         IN  update_all_paths(h2, roots, i + 1)

(***************************************************************************)
(* build_tree as a state machine                                           *)
(***************************************************************************)
vars == <<pc, all_doctypes, specified_mapping, translations, nodes, lists,
          entities, processed_doctypes, raised, childs_name, paths, references,
          result, previous, all_doctype_data, formulas, doctypes_index,
          handler_pc, emitted, generated_json_data, entity_structure,
          child_parent_mapping>>

Heap == [nodes |-> nodes, lists |-> lists, processed |-> processed_doctypes,
         err |-> raised, roots |-> entities]

Init ==
    /\ pc = "start"
    /\ \E ds \in DeclSeqs(MaxDecl) :
          /\ Acyclic(MappingsOf(ds, 1))
          /\ all_doctypes = CatalogueOf(ds)
          /\ specified_mapping = MappingsOf(ds, 1)
          /\ translations = TranslationsOf(ds)
    /\ nodes = <<>>
    /\ lists = <<>>
    /\ entities = <<>>
    /\ processed_doctypes = {}
    /\ raised = ""
    /\ childs_name = "childs"
    /\ paths = <<>>
    /\ references = <<>>
    /\ result = <<>>
    /\ previous = <<>>
    /\ all_doctype_data = <<>>
    /\ formulas = <<>>
    /\ doctypes_index = <<>>
    /\ AppIdle

\* the heap and the root list after a step; an exception ends the run
Becomes(h, next) ==
    /\ nodes' = h.nodes
    /\ lists' = h.lists
    /\ processed_doctypes' = h.processed
    /\ raised' = h.err
    /\ entities' = h.roots
    /\ pc' = IF h.err # "" THEN "raised" ELSE next
    /\ UNCHANGED <<all_doctypes, specified_mapping, translations>>
    /\ UNCHANGED compileVars
    /\ UNCHANGED walkVars
    /\ UNCHANGED appVars

\* build_tree lines 44-72
CreateEntities ==
    /\ pc = "start"
    /\ Becomes(CreateRoots(CreateRoots(Heap, TRUE, 1), FALSE, 1), "created")

\* build_tree line 75
ApplySpecifiedMappings ==
    /\ pc = "created"
    /\ Becomes(apply_specified_mappings(Heap), "mapped")

\* build_tree lines 77-79
UpdateAllPaths ==
    /\ pc = "mapped"
    /\ Becomes(update_all_paths(Heap, entities, 1), "done")

Next == CreateEntities \/ ApplySpecifiedMappings \/ UpdateAllPaths

Spec == Init /\ [][Next]_vars

(***************************************************************************)
(* The forest as the list of its positions, in document order: a node that *)
(* is reachable along two ways has two positions.                          *)
(***************************************************************************)
RECURSIVE Positions(_, _, _, _, _)
Positions(h, s, parent, depth, i) ==
    IF i > Len(s) \/ depth > Len(h.nodes) THEN <<>>
    ELSE <<[node |-> s[i], parent |-> parent, depth |-> depth]>>
         \o Positions(h, ChildrenOf(h, s[i]), s[i], depth + 1, 1)
         \o Positions(h, s, parent, depth, i + 1)

Forest == Positions(Heap, entities, 0, 0, 1)

IsEntityOf(n, t) == nodes[n].type = "doctype" /\ nodes[n].fieldname = t

\* the positions of the entity nodes of type t
EntityPositions(t) == {k \in 1..Len(Forest) : IsEntityOf(Forest[k].node, t)}

Returned == pc = "done"
Mapped == pc \in {"mapped", "done"}

MappingInCatalogue(m) == InCatalogue(m.child) /\ InCatalogue(m.parent)

(***************************************************************************)
(* Claims on the Tree Builder                                              *)
(***************************************************************************)
\* C1: the forest returned by build_tree holds exactly one entity node for
\* every entity type of the catalogue.
C1_EveryTypeExactlyOnce ==
    Returned => \A t \in TypeNames : Cardinality(EntityPositions(t)) = 1

\* C2: after apply_specified_mappings the entity node of a mapping's child is
\* nowhere a forest root and nowhere the child of a node that is not the
\* entity node of the mapping's parent.
C2_ChildOnlyUnderParent ==
    Mapped =>
        \A i \in 1..Len(specified_mapping) :
            \A k \in EntityPositions(specified_mapping[i].child) :
                /\ Forest[k].parent # 0
                /\ IsEntityOf(Forest[k].parent, specified_mapping[i].parent)

\* C3: for every mapping whose child and parent are entity types of the
\* catalogue, the returned forest has the child's entity node as a direct
\* child of the parent's entity node.
C3_ChildAttachedToParent ==
    Returned =>
        \A i \in 1..Len(specified_mapping) :
            MappingInCatalogue(specified_mapping[i]) =>
                \E k \in EntityPositions(specified_mapping[i].child) :
                    /\ Forest[k].parent # 0
                    /\ IsEntityOf(Forest[k].parent, specified_mapping[i].parent)

\* C4: in the returned forest a root's path is normalize(description) and
\* every other node's path is its parent's path, a dot, and
\* normalize(description).
C4_PathOfEveryNode ==
    Returned =>
        \A k \in 1..Len(Forest) :
            LET n == nodes[Forest[k].node] IN
            IF Forest[k].parent = 0
            THEN n.path = normalize_string(n.description)
            ELSE n.path = nodes[Forest[k].parent].path \o <<".">>
                              \o normalize_string(n.description)

\* C5: in the returned forest no entity type has entity nodes under two
\* parents, nor one as a root and another nested.
C5_SingleOwnership ==
    Returned => \A t \in TypeNames : Cardinality(EntityPositions(t)) <= 1

\* C17: a mapping whose parent is no entity type of the catalogue is a no-op:
\* in the forest that build_tree returns the mapping's child, an entity type
\* of the catalogue, keeps its entity node.  Taken on the runs whose mappings
\* all have such a parent, so that no other mapping moves the child.
C17_MissingParentNoOp ==
    (Returned /\ \A i \in 1..Len(specified_mapping) :
                    ~InCatalogue(specified_mapping[i].parent))
    => \A i \in 1..Len(specified_mapping) :
           InCatalogue(specified_mapping[i].child)
           => EntityPositions(specified_mapping[i].child) # {}

\* the first mapping of the list with the child of mapping i
FirstMappingOf(i) ==
    CHOOSE j \in 1..i :
        /\ specified_mapping[j].child = specified_mapping[i].child
        /\ \A k \in 1..(j - 1) :
              specified_mapping[k].child # specified_mapping[i].child

\* C18: when two mappings name the same child with different parents, both
\* entity types of the catalogue, the returned forest has the child's entity
\* node under the parent of the first of them and under no other node.
C18_FirstParentWins ==
    Returned =>
        \A i \in 1..Len(specified_mapping) :
            (/\ FirstMappingOf(i) # i
             /\ specified_mapping[FirstMappingOf(i)].parent # specified_mapping[i].parent
             /\ MappingInCatalogue(specified_mapping[i])
             /\ MappingInCatalogue(specified_mapping[FirstMappingOf(i)]))
            => /\ EntityPositions(specified_mapping[i].child) # {}
               /\ \A k \in EntityPositions(specified_mapping[i].child) :
                     /\ Forest[k].parent # 0
                     /\ IsEntityOf(Forest[k].parent,
                                   specified_mapping[FirstMappingOf(i)].parent)

\* C20: in the children list of every node of the returned forest no child
\* of type doctype comes before a child of another type.
C20_FieldsBeforeEntities ==
    Returned =>
        \A k \in 1..Len(Forest) :
            LET cs == ChildrenOf(Heap, Forest[k].node) IN
            \A i \in 1..Len(cs), j \in 1..Len(cs) :
                (i < j /\ nodes[cs[i]].type = "doctype")
                => nodes[cs[j]].type = "doctype"

(***************************************************************************)
(* The Reference Compiler: the end of data_to_engine (engine_data.py).     *)
(* The walk result is that of the forest A{q, B{q}} on an empty record     *)
(* store, with one formula of the formula group; the text of the formula   *)
(* is at most MaxPieces pieces long.                                       *)
(***************************************************************************)
MaxPieces == 3

PathA   == <<"a">>
PathAQ  == <<"a", ".", "q">>
PathAB  == <<"a", ".", "b">>
PathABQ == <<"a", ".", "b", ".", "q">>

\* the order in which traverse_doctype and traverse_doctype_data touch them
TouchedPaths == <<PathA, PathAQ, PathAB, PathABQ>>

\* the text of a code, written by hand into a formula
CodeText == <<"e", "0", "0", "0", "0", "0", "v">>

Pieces == {PathA, PathAQ, PathAB, <<"+">>, <<"z">>, CodeText}

RECURSIVE Texts(_)
\* the concatenations of at most k pieces
Texts(k) ==
    IF k = 0 THEN {<<>>}
    ELSE Texts(k - 1) \cup {t \o q : t \in Texts(k - 1), q \in Pieces}

\* {"path": ..., "type": ..., "value": None} of the placeholder item
FieldItem(path) == [path |-> path, type |-> "numeric", value |-> None]

\* the entry of engine_formulas
FormulaRef(path, text, doctype, fieldname) ==
    [path |-> path, value |-> text,
     update |-> [doctype |-> doctype, fieldname |-> fieldname]]

\* the placeholder engine_data_item, its child heads under the key cn
EngineItem(cn, fields, heads) ==
    IF cn = "data"
    THEN [id |-> None, creation |-> None, fields |-> fields, data |-> heads]
    ELSE [id |-> None, creation |-> None, fields |-> fields, childs |-> heads]

\* new_head_data_item
EngineHead(path, engine_formulas, data) ==
    [path |-> path, formulas |-> engine_formulas, data |-> data]

\* the walk result for a formula of entity type doctype ("A" or "B") whose
\* target field search_fieldname_path finds (found) or not
WalkResult(cn, text, doctype, found) ==
    <<EngineHead(PathA,
        IF doctype = "A"
        THEN <<FormulaRef(IF found THEN PathAQ ELSE None, text, "A",
                          IF found THEN "q" ELSE "r")>>
        ELSE <<>>,
        <<EngineItem(cn, <<FieldItem(PathAQ)>>,
            <<EngineHead(PathAB,
                IF doctype = "B"
                THEN <<FormulaRef(IF found THEN PathABQ ELSE None, text, "B",
                                  IF found THEN "q" ELSE "r")>>
                ELSE <<>>,
                <<EngineItem(cn, <<FieldItem(PathABQ)>>, <<>>)>>)>>)>>)>>

Digit(n) == <<"0", "1", "2", "3", "4", "5", "6", "7", "8", "9">>[n + 1]

RECURSIVE Decimal(_)
Decimal(n) ==
    IF n < 10 THEN <<Digit(n)>> ELSE Decimal(n \div 10) \o <<Digit(n % 10)>>

RECURSIVE ZeroPad(_, _)
ZeroPad(s, width) == IF Len(s) >= width THEN s ELSE ZeroPad(<<"0">> \o s, width)

\* f"e{index:05d}v"
Code(index) == <<"e">> \o ZeroPad(Decimal(index), 5) \o <<"v">>

\* the first of the longest paths of a non-empty table
FirstLongest(refs) ==
    CHOOSE i \in 1..Len(refs) :
        /\ \A j \in 1..Len(refs) : Len(refs[j].path) <= Len(refs[i].path)
        /\ \A j \in 1..(i - 1) : Len(refs[j].path) < Len(refs[i].path)

RECURSIVE SortedByLength(_)
\* sorted(..., key=lambda x: len(x[1]), reverse=True): stable
SortedByLength(refs) ==
    IF refs = <<>> THEN <<>>
    ELSE <<refs[FirstLongest(refs)]>>
         \o SortedByLength(PopAt(refs, FirstLongest(refs)))

sorted_items == SortedByLength(references)

\* the text p stands in text at position k
StartsAt(text, p, k) ==
    /\ k >= 1
    /\ k + Len(p) - 1 <= Len(text)
    /\ SubSeq(text, k, k + Len(p) - 1) = p

NoMatch == -1

\* the pattern without its (\W|$) group: an empty suffix at any position
SuffixLenUnchecked(text, j) == 0

\* (\W|$) at position j: the length of the suffix, or NoMatch
SuffixLen(text, j) ==
    IF j <= Len(text) /\ ~IsWordChar(text[j]) THEN 1
    ELSE IF j = Len(text) + 1 THEN 0
    ELSE NoMatch

\* (^|\W) of a match of the pattern that begins at position pos: the length
\* of the prefix, or NoMatch
PrefixLen(text, p, pos) ==
    IF pos = 1 /\ StartsAt(text, p, 1) /\ SuffixLen(text, 1 + Len(p)) # NoMatch
    THEN 0
    ELSE IF /\ ~IsWordChar(text[pos])
            /\ StartsAt(text, p, pos + 1)
            /\ SuffixLen(text, pos + 1 + Len(p)) # NoMatch
    THEN 1
    ELSE NoMatch

\* replace_match that returns prefix + code and loses the suffix
replace_match_no_suffix(text, p, code, pos, k) == SubSeq(text, pos, k - 1) \o code

\* replace_match: prefix + code + suffix, for the match at pos whose path
\* begins at position k
replace_match(text, p, code, pos, k) ==
    SubSeq(text, pos, k - 1) \o code
        \o SubSeq(text, k + Len(p), k + Len(p) + SuffixLen(text, k + Len(p)) - 1)

RECURSIVE re_sub(_, _, _, _)
\* re.sub(pattern, replace_match, value) from position pos on: matches are
\* found from left to right and do not overlap
re_sub(text, p, code, pos) ==
    IF pos > Len(text) THEN <<>>
    ELSE IF PrefixLen(text, p, pos) = NoMatch
    THEN <<text[pos]>> \o re_sub(text, p, code, pos + 1)
    ELSE CHOOSE replaced \in
           {replace_match(text, p, code, pos, k)
              \o re_sub(text, p, code, k + Len(p) + SuffixLen(text, k + Len(p))) :
            k \in {pos + PrefixLen(text, p, pos)}} : TRUE

\* "path" in item and "value" in item and "update" in item
IsFormula(item) == {"path", "value", "update"} \subseteq DOMAIN item

\* "Special handling for formula fields" (lines 337-357)
ChangeValue(item, code, original_path) ==
    IF IsFormula(item) /\ item.value # None
    THEN [item EXCEPT !.value = re_sub(@, original_path, code, 1)]
    ELSE item

\* "Special case for the path field" (lines 359-363)
ChangePath(item, code, original_path) ==
    IF "path" \in DOMAIN item /\ item.path = original_path
    THEN [item EXCEPT !.path = code]
    ELSE item

RECURSIVE ChangePaths(_, _, _)
\* for code, original_path in ref_dict.items() (lines 334-363); a dict is
\* bound by {e : x \in {dict}} so that it is computed once
ChangePaths(item, ref_dict, i) ==
    IF i > Len(ref_dict) THEN item
    ELSE CHOOSE changed \in
           {ChangePaths(i2, ref_dict, i + 1) :
              i2 \in {ChangePath(i1, ref_dict[i].code, ref_dict[i].path) :
                 i1 \in {ChangeValue(i0, ref_dict[i].code, ref_dict[i].path) :
                    i0 \in {item}}}} : TRUE

RECURSIVE replace_recursive(_)
RECURSIVE VisitList(_, _)
\* for i in items: replace_recursive(i)
VisitList(items, j) ==
    IF j > Len(items) THEN <<>>
    ELSE <<replace_recursive(items[j])>> \o VisitList(items, j + 1)

\* if k in item: for i in item[k]: replace_recursive(i)
VisitKey(item, k) ==
    IF k \in DOMAIN item THEN [item EXCEPT ![k] = VisitList(item[k], 1)] ELSE item

\* a dict of the result: its lists are visited in the order "data",
\* childs_name, "fields", "formulas", then its own path and value are changed
replace_recursive(item) ==
    CHOOSE replaced \in
      {ChangePaths(i4, sorted_items, 1) :
        i4 \in {VisitKey(i3, "formulas") :
          i3 \in {VisitKey(i2, "fields") :
            i2 \in {VisitKey(i1, childs_name) :
              i1 \in {VisitKey(i0, "data") : i0 \in {item}}}}}} : TRUE

\* replace_paths on the list result
replace_paths(obj) == VisitList(obj, 1)

(***************************************************************************)
(* The end of data_to_engine as a state machine                            *)
(***************************************************************************)
InitCompile ==
    /\ pc = "walked"
    /\ \E cn \in {"childs", "data"}, text \in Texts(MaxPieces),
          doctype \in {"A", "B"}, found \in BOOLEAN :
          /\ childs_name = cn
          /\ result = WalkResult(cn, text, doctype, found)
    /\ paths = TouchedPaths
    /\ references = <<>>
    /\ previous = result
    /\ all_doctypes = [order |-> <<>>, fields |-> <<>>]
    /\ specified_mapping = <<>>
    /\ translations = {}
    /\ nodes = <<>>
    /\ lists = <<>>
    /\ entities = <<>>
    /\ processed_doctypes = {}
    /\ raised = ""
    /\ all_doctype_data = <<>>
    /\ formulas = <<>>
    /\ doctypes_index = <<>>
    /\ AppIdle

\* "Monta as referencias" (lines 374-379)
BuildReferences ==
    /\ pc = "walked"
    /\ references' = [i \in 1..Len(paths) |-> [code |-> Code(i - 1), path |-> paths[i]]]
    /\ pc' = "referenced"
    /\ UNCHANGED <<childs_name, paths, result, previous>>
    /\ UNCHANGED treeVars
    /\ UNCHANGED walkVars
    /\ UNCHANGED appVars

\* replace_paths(result, sorted_items) (lines 383-384)
ReplacePaths ==
    /\ pc = "referenced"
    /\ previous' = result
    /\ result' = replace_paths(result)
    /\ pc' = "compiled"
    /\ UNCHANGED <<childs_name, paths, references>>
    /\ UNCHANGED treeVars
    /\ UNCHANGED walkVars
    /\ UNCHANGED appVars

\* replace_paths once more on the data it has rewritten, same table
ReplacePathsAgain ==
    /\ pc = "compiled"
    /\ previous' = result
    /\ result' = replace_paths(result)
    /\ pc' = "recompiled"
    /\ UNCHANGED <<childs_name, paths, references>>
    /\ UNCHANGED treeVars
    /\ UNCHANGED walkVars
    /\ UNCHANGED appVars

NextCompile == BuildReferences \/ ReplacePaths \/ ReplacePathsAgain

SpecCompile == InitCompile /\ [][NextCompile]_vars

(***************************************************************************)
(* The formulas of a result, and the inverse of the substitution           *)
(***************************************************************************)
RECURSIVE HeadsFormulas(_, _)
RECURSIVE ItemsFormulas(_, _)
\* the FormulaRefs of a list of heads, in document order
HeadsFormulas(heads, i) ==
    IF i > Len(heads) THEN <<>>
    ELSE heads[i].formulas \o ItemsFormulas(heads[i].data, 1)
         \o HeadsFormulas(heads, i + 1)

ItemsFormulas(items, i) ==
    IF i > Len(items) THEN <<>>
    ELSE HeadsFormulas(items[i][childs_name], 1) \o ItemsFormulas(items, i + 1)

\* the formula value texts of the result and what they were before
Values == [k \in 1..Len(HeadsFormulas(result, 1)) |-> HeadsFormulas(result, 1)[k].value]
ValuesBefore ==
    [k \in 1..Len(HeadsFormulas(previous, 1)) |-> HeadsFormulas(previous, 1)[k].value]

Compiled == pc = "compiled"
Recompiled == pc = "recompiled"

\* the text p stands in text at position k as a whole token
WholeTokenAt(text, p, k) ==
    /\ StartsAt(text, p, k)
    /\ k = 1 \/ ~IsWordChar(text[k - 1])
    /\ k + Len(p) > Len(text) \/ ~IsWordChar(text[k + Len(p)])

\* the text holds the code of a path of the table
HasCode(text) ==
    \E r \in 1..Len(references), k \in 1..Len(text) :
        StartsAt(text, references[r].code, k)

\* no formula of the walk result was written with a code in it
PlainFormulas == \A i \in 1..Len(ValuesBefore) : ~HasCode(ValuesBefore[i])

\* the path p2 with the code in place of its part p1 at offset d
Shadowed(p2, p1, code, d) ==
    SubSeq(p2, 1, d - 1) \o code \o SubSeq(p2, d + Len(p1), Len(p2))

RECURSIVE DecodeText(_, _)
\* every code in the text replaced by referencia[code]
DecodeText(text, k) ==
    IF k > Len(text) THEN <<>>
    ELSE IF \E r \in 1..Len(references) : StartsAt(text, references[r].code, k)
    THEN LET r == CHOOSE r \in 1..Len(references) :
                      StartsAt(text, references[r].code, k)
         IN  references[r].path \o DecodeText(text, k + Len(references[r].code))
    ELSE <<text[k]>> \o DecodeText(text, k + 1)

\* a path field that is a code replaced by referencia[code]
DecodePath(path) ==
    IF \E r \in 1..Len(references) : references[r].code = path
    THEN references[CHOOSE r \in 1..Len(references) : references[r].code = path].path
    ELSE path

RECURSIVE Decode(_)
RECURSIVE DecodeList(_, _)
DecodeList(items, j) ==
    IF j > Len(items) THEN <<>>
    ELSE <<Decode(items[j])>> \o DecodeList(items, j + 1)

DecodeKey(item, k) ==
    IF k \in DOMAIN item THEN [item EXCEPT ![k] = DecodeList(item[k], 1)] ELSE item

DecodeFields(item) ==
    IF IsFormula(item)
    THEN [item EXCEPT !.path = DecodePath(@), !.value = DecodeText(@, 1)]
    ELSE IF "path" \in DOMAIN item THEN [item EXCEPT !.path = DecodePath(@)]
    ELSE item

Decode(item) ==
    CHOOSE decoded \in
      {DecodeFields(i4) :
        i4 \in {DecodeKey(i3, "formulas") :
          i3 \in {DecodeKey(i2, "fields") :
            i2 \in {DecodeKey(i1, "childs") :
              i1 \in {DecodeKey(i0, "data") : i0 \in {item}}}}}} : TRUE

(***************************************************************************)
(* Claims on the Reference Compiler                                        *)
(***************************************************************************)
\* C6: for two paths P1, P2 of the reference table with P1 a part of P2, no
\* formula value text compiled by data_to_engine holds, as a whole token, P2
\* with the code of P1 in the place of P1: the code of P1 is never
\* substituted inside an occurrence of P2.
C6_LongestMatchFirst ==
    (Compiled /\ PlainFormulas) =>
        \A i \in 1..Len(Values) :
            \A r1 \in 1..Len(references), r2 \in 1..Len(references) :
                \A d \in 1..Len(references[r2].path) :
                    (r1 # r2 /\ StartsAt(references[r2].path, references[r1].path, d))
                    => \A k \in 1..Len(Values[i]) :
                           ~WholeTokenAt(Values[i],
                                         Shadowed(references[r2].path,
                                                  references[r1].path,
                                                  references[r1].code, d), k)

\* C7: after data_to_engine no formula value text holds a path of the
\* reference table as a whole token: every such occurrence was rewritten.
C7_EveryTokenRewritten ==
    Compiled =>
        \A i \in 1..Len(Values) :
            \A r \in 1..Len(references), k \in 1..Len(Values[i]) :
                ~WholeTokenAt(Values[i], references[r].path, k)

\* C8: every code that data_to_engine has written into a formula value text
\* stands between start of string or a non-word character and a non-word
\* character or end of string: a path inside a longer word is not rewritten.
C8_OnlyWholeTokens ==
    (Compiled /\ PlainFormulas) =>
        \A i \in 1..Len(Values) :
            \A r \in 1..Len(references), k \in 1..Len(Values[i]) :
                StartsAt(Values[i], references[r].code, k)
                => WholeTokenAt(Values[i], references[r].code, k)

\* a formula had a path of the table inside a longer word, and a path was
\* rewritten in that formula
C8_Witness ==
    /\ Compiled
    /\ PlainFormulas
    /\ \E i \in 1..Len(Values) :
          /\ HasCode(Values[i])
          /\ \E r \in 1..Len(references), k \in 1..Len(ValuesBefore[i]) :
                /\ StartsAt(ValuesBefore[i], references[r].path, k)
                /\ k + Len(references[r].path) <= Len(ValuesBefore[i])
                /\ ValuesBefore[i][k + Len(references[r].path)] = "z"

\* C9: replace_paths applied a second time with the same reference table
\* changes no path field and no formula value text.
C9_Idempotent == Recompiled => result = previous

\* C10: replacing every code of the compiled data, in path fields and in
\* formula value texts, by referencia[code] gives back the walk result.
C10_RoundTrip ==
    Compiled => DecodeList(result, 1) = previous

(***************************************************************************)
(* The walk of data_to_engine (engine_data.py lines 61-278 and 370-372):   *)
(* the forest is one that build_tree returns, the record store holds at    *)
(* most MaxRecords records of an entity type.                              *)
(*                                                                         *)
(* The heads and items that the walk builds are Python dicts reached       *)
(* through several references (head_data_item["data"][-1][childs_name]),   *)
(* so they live in a heap of their own until the walk returns.             *)
(***************************************************************************)
MaxRecords == 2

DeclIndex(d) == CHOOSE i \in 1..Len(DeclPool) : DeclPool[i] = d

\* the catalogues whose forests are walked: three roots; B under A by a
\* mandatory mapping; B under A by a Table field; a Table field without
\* options in A; A with a Link field labelled C D and a Table field without
\* options, under B by a Table field, and B under C D by a mandatory mapping
WalkDecls ==
    {<<>>,
     <<DeclIndex([kind |-> "map", a |-> TB, b |-> TA])>>,
     <<DeclIndex([kind |-> "table", a |-> TA, b |-> TB])>>,
     <<DeclIndex([kind |-> "bare", a |-> TA, b |-> None])>>,
     <<DeclIndex([kind |-> "link", a |-> TA, b |-> TC]),
       DeclIndex([kind |-> "bare", a |-> TA, b |-> None]),
       DeclIndex([kind |-> "table", a |-> TB, b |-> TA]),
       DeclIndex([kind |-> "map", a |-> TB, b |-> TC])>>}

\* a raw record: name, creation and the other keys of the dict
Record(name, fields) == [name |-> name, creation |-> <<"c">>, fields |-> fields]

Embedded == <<"t", "_", "b">>      \* TableField(TB).fieldname

\* the arrays a record of A may embed under "t_b"
EmbeddedArrays == {<<>>, <<Record(<<"x", "1">>, (<<"q">> :> <<"7">>))>>}

\* the k-th record of A, with or without an embedded array
RecordsA(k) ==
    {Record(<<"a", Digit(k)>>, (<<"q">> :> <<Digit(k)>>))}
    \cup {Record(<<"a", Digit(k)>>, (<<"q">> :> <<Digit(k)>>) @@ (Embedded :> e)) :
             e \in EmbeddedArrays}

\* the k-th record of B; the records after the first have no value of q
RecordB(k) ==
    Record(<<"b", Digit(k)>>,
           IF k = 1 THEN (<<"q">> :> <<"5">>) ELSE (<<"n">> :> <<"0">>))

RECURSIVE SlicesA(_)
\* the record sequences of A of length k
SlicesA(k) ==
    IF k = 0 THEN {<<>>}
    ELSE {Append(s, r) : s \in SlicesA(k - 1), r \in RecordsA(k)}

\* one dict {doctype: data} of all_doctype_data, or none
Entries(doctype, slices) ==
    {<<>>} \cup {<<[doctype |-> doctype, data |-> s]>> : s \in slices}

Stores ==
    {a \o b \o c :
        a \in Entries(TA, UNION {SlicesA(k) : k \in 0..MaxRecords}),
        b \in Entries(TB, {[i \in 1..k |-> RecordB(i)] : k \in 0..MaxRecords}),
        c \in Entries(TC, {<<>>})}

\* an entry of "tableformulas"
Formula(doctype, fieldname, text) ==
    [groupfielddoctype |-> doctype, groupfieldfieldname |-> fieldname,
     formula |-> text]

\* well-formed entries: of A and of B on the field q, of A on a field that
\* the forest does not have
GoodFormulas ==
    {Formula(TA, <<"q">>, PathAQ), Formula(TB, <<"q">>, PathAQ),
     Formula(TA, <<"r">>, PathAQ)}

\* entries that lack one key
BadFormulas ==
    {[groupfieldfieldname |-> <<"q">>, formula |-> PathAQ],
     [groupfielddoctype |-> TA, formula |-> PathAQ],
     [groupfielddoctype |-> TA, groupfieldfieldname |-> <<"q">>]}

\* the formula groups: no group, a group without "tableformulas", a group of
\* no, one or two entries, two groups of one entry
FormulaGroups ==
    {<<>>, <<[name |-> <<"g">>]>>, <<[tableformulas |-> <<>>]>>}
    \cup {<<[tableformulas |-> <<Formula(TB, <<"q">>, PathAQ)>>],
            [tableformulas |-> <<Formula(TA, <<"q">>, PathAQ)>>]>>}
    \cup {<<[tableformulas |-> <<f>>]>> : f \in GoodFormulas \cup BadFormulas}
    \cup {<<[tableformulas |-> <<f, Formula(TA, <<"q">>, PathAQ)>>]>> :
             f \in BadFormulas}

\* bool(x) of a str, a list or None
Truthy(x) == x # None /\ x # <<>>

RECURSIVE ChildPath(_, _, _)
\* lines 75-78: the path of the first child whose fieldname is field_name
ChildPath(s, field_name, i) ==
    IF i > Len(s) THEN None
    ELSE IF nodes[s[i]].fieldname = field_name THEN nodes[s[i]].path
    ELSE ChildPath(s, field_name, i + 1)

RECURSIVE traverse(_, _, _, _)
RECURSIVE TraverseAll(_, _, _, _, _)
\* for child in ...: path = traverse(child, path)
TraverseAll(s, path, doctype_name, field_name, i) ==
    IF i > Len(s) THEN path
    ELSE TraverseAll(s, traverse(s[i], path, doctype_name, field_name),
                     doctype_name, field_name, i + 1)

\* the inner function of search_fieldname_path (lines 67-83); a result that
\* is not truthy is None to every caller
traverse(node, path, doctype_name, field_name) ==
    IF Truthy(path) THEN path
    ELSE IF nodes[node].type = "doctype" /\ nodes[node].fieldname = doctype_name
    THEN ChildPath(lists[nodes[node].children], field_name, 1)
    ELSE TraverseAll(lists[nodes[node].children], None, doctype_name, field_name, 1)

\* search_fieldname_path(doctype_tree, doctype_name, field_name)
search_fieldname_path(doctype_name, field_name) ==
    CHOOSE r \in {IF Truthy(p) THEN p ELSE None :
                    p \in {TraverseAll(entities, None, doctype_name, field_name, 1)}} :
        TRUE

\* the locals of data_to_engine during the walk; cur is engine_data_item of
\* the running traverse_doctype_data: an item of the heap, or 0 for {}
NewWalk ==
    [paths |-> <<>>, index |-> <<>>, err |-> "", heads |-> <<>>, items |-> <<>>,
     roots |-> <<>>, cur |-> 0]

Raise(w, e) == IF w.err = "" THEN [w EXCEPT !.err = e] ELSE w

\* add_path_to_list without the test "if not path in paths"
add_path_unchecked(w, path) == [w EXCEPT !.paths = Append(@, path)]

add_path_to_list(w, path) ==
    IF InSeq(path, w.paths) THEN w ELSE [w EXCEPT !.paths = Append(@, path)]

\* get_doctype_data: <<doctype_data>>, or <<>> when no dict of the store has
\* the key and the local is unbound at the return
get_doctype_data(doctype_name) ==
    LET hits == {i \in 1..Len(all_doctype_data) :
                    all_doctype_data[i].doctype = doctype_name}
    IN  IF hits = {} THEN <<>>
        ELSE <<all_doctype_data[CHOOSE i \in hits : \A j \in hits : j <= i].data>>

\* the exception of lines 240-261 for a node of this fieldname, "" if none
FormulaError(fieldname) ==
    IF Len(formulas) = 0 THEN "IndexError"
    ELSE IF "tableformulas" \notin DOMAIN formulas[1] THEN "KeyError"
    ELSE IF \E i \in 1..Len(formulas[1].tableformulas) :
               "groupfielddoctype" \notin DOMAIN formulas[1].tableformulas[i]
    THEN "KeyError"
    ELSE IF \E i \in 1..Len(formulas[1].tableformulas) :
               /\ formulas[1].tableformulas[i].groupfielddoctype = fieldname
               /\ ~({"groupfieldfieldname", "formula"}
                       \subseteq DOMAIN formulas[1].tableformulas[i])
    THEN "KeyError"
    ELSE ""

RECURSIVE EngineFormulas(_, _, _)
\* engine_formulas of a node (lines 238-261)
EngineFormulas(fs, fieldname, i) ==
    IF i > Len(fs) THEN <<>>
    ELSE (IF fs[i].groupfielddoctype = fieldname
          THEN <<FormulaRef(search_fieldname_path(fs[i].groupfielddoctype,
                                                  fs[i].groupfieldfieldname),
                            fs[i].formula, fs[i].groupfielddoctype,
                            fs[i].groupfieldfieldname)>>
          ELSE <<>>)
         \o EngineFormulas(fs, fieldname, i + 1)

\* engine_data_item = {"id": ..., "creation": ..., "fields": [], childs_name: []}
NewItem(w, id, creation) ==
    [w EXCEPT !.items = Append(@, [id |-> id, creation |-> creation,
                                   fields |-> <<>>, childs |-> <<>>]),
              !.cur = Len(w.items) + 1]

\* if len(engine_data_item) != 0: head_data_item["data"].append(engine_data_item)
AttachItem(w, head) ==
    IF w.err # "" \/ w.cur = 0 THEN w
    ELSE [w EXCEPT !.heads[head].data = Append(@, w.cur)]

\* new_head_data_item (lines 264-268)
NewHead(w, node) ==
    [w EXCEPT !.heads = Append(@, [path |-> nodes[node].path,
                                   formulas |-> EngineFormulas(
                                       formulas[1].tableformulas,
                                       nodes[node].fieldname, 1),
                                   data |-> <<>>])]

\* LinkHead that nests the new head in the first item of the head, not in
\* the last one
LinkHeadFirst(w, head) ==
    IF head = 0 THEN w
    ELSE IF w.heads[head].data = <<>> THEN Raise(w, "IndexError")
    ELSE [w EXCEPT !.items[w.heads[head].data[1]].childs = Append(@, Len(w.heads))]

\* head_data_item["data"][-1][childs_name].append(new_head_data_item), the
\* new head being the last of the heap
LinkHead(w, head) ==
    IF head = 0 THEN w
    ELSE IF w.heads[head].data = <<>> THEN Raise(w, "IndexError")
    ELSE [w EXCEPT !.items[w.heads[head].data[Len(w.heads[head].data)]].childs =
                       Append(@, Len(w.heads))]

\* if not head_data_item: result.append(new_head_data_item)
AppendResult(w, head, new) ==
    IF w.err # "" \/ head # 0 THEN w ELSE [w EXCEPT !.roots = Append(@, new)]

\* the field of one field node (lines 163-172 and 220-224); d is <<record>>
\* or <<>> for the placeholder
AppendField(w, n, d) ==
    IF w.cur = 0 THEN Raise(w, "KeyError")
    ELSE [w EXCEPT !.items[w.cur].fields =
            Append(@, [path |-> nodes[n].path, type |-> nodes[n].type,
                       value |-> IF Len(d) = 1 /\ nodes[n].fieldname \in DOMAIN d[1].fields
                                 THEN d[1].fields[nodes[n].fieldname]
                                 ELSE None])]

\* doctype_data_item of a child entity node (lines 142-149 and 206): <<slice>>,
\* or <<>> when reading it raises
DoctypeDataItem(n, d) ==
    IF Len(d) = 0 THEN <<(<<>>)>>
    ELSE IF Truthy(nodes[n].fieldname_data)
    THEN IF nodes[n].fieldname_data \in DOMAIN d[1].fields
         THEN <<d[1].fields[nodes[n].fieldname_data]>>
         ELSE <<>>
    ELSE get_doctype_data(nodes[n].fieldname)

DoctypeDataError(n, d) ==
    IF Truthy(nodes[n].fieldname_data) THEN "KeyError" ELSE "UnboundLocalError"

RECURSIVE traverse_doctype(_, _, _, _, _)

\* one node of "for n in nodes" (lines 135-172 and 189-224)
NodeStep(w, n, head, d) ==
    IF w.err # "" THEN w
    ELSE IF nodes[n].type = "doctype"
    THEN IF Len(DoctypeDataItem(n, d)) = 0
         THEN Raise(add_path_to_list(w, nodes[n].path), DoctypeDataError(n, d))
         ELSE [traverse_doctype(
                   [AttachItem(add_path_to_list(w, nodes[n].path), head)
                       EXCEPT !.cur = 0],
                   n, head, DoctypeDataItem(n, d)[1], TRUE)
                 EXCEPT !.cur = 0]
    ELSE AppendField(add_path_to_list(w, nodes[n].path), n, d)

RECURSIVE NodeLoop(_, _, _, _, _)
NodeLoop(w, s, head, d, i) ==
    IF i > Len(s) THEN w
    ELSE NodeLoop(NodeStep(w, s[i], head, d), s, head, d, i + 1)

RECURSIVE RecordLoop(_, _, _, _, _, _)
\* for d in doctype_data[index:] (lines 121-176), k the position of d
RecordLoop(w, s, head, doctype_data, path, k) ==
    IF w.err # "" \/ k > Len(doctype_data) THEN w
    ELSE RecordLoop(
           AttachItem(
             NodeLoop(NewItem([w EXCEPT !.index[path] = @ + 1],
                              doctype_data[k].name, doctype_data[k].creation),
                      s, head, <<doctype_data[k]>>, 1),
             head),
           s, head, doctype_data, path, k + 1)

\* if len(doctype_data[index:]) == 0 (lines 179-227)
Placeholder(w, s, head, empty) ==
    IF w.err # "" \/ ~empty THEN w
    ELSE AttachItem(NodeLoop(NewItem(w, None, None), s, head, <<>>, 1), head)

\* the rest of traverse_doctype_data once index is read (line 118)
WalkSlice(w, s, head, doctype_data, path, index) ==
    Placeholder(RecordLoop([w EXCEPT !.index = (path :> index) @@ @],
                           s, head, doctype_data, path, index + 1),
                s, head, Len(doctype_data) <= index)

\* traverse_doctype_data(nodes, head_data_item, doctype_data, path, reset_index)
traverse_doctype_data(w, s, head, doctype_data, path, reset_index) ==
    IF w.err # "" THEN w
    ELSE WalkSlice(w, s, head, doctype_data, path,
                   IF reset_index \/ path \notin DOMAIN w.index
                   THEN 0 ELSE w.index[path])

\* traverse_doctype(node, head_data_item, doctype_data, path, reset_index);
\* head is 0 for None, doctype_data is <<>> for None as for [] (line 235
\* tests "not doctype_data"), and the parameter path is never read
traverse_doctype(w, node, head, doctype_data, reset_index) ==
    IF w.err # "" THEN w
    ELSE IF Len(doctype_data) = 0 /\ Len(get_doctype_data(nodes[node].fieldname)) = 0
    THEN Raise(add_path_to_list(w, nodes[node].path), "UnboundLocalError")
    ELSE IF FormulaError(nodes[node].fieldname) # ""
    THEN Raise(w, FormulaError(nodes[node].fieldname))
    ELSE AppendResult(
           traverse_doctype_data(
             LinkHead(NewHead(add_path_to_list(w, nodes[node].path), node), head),
             lists[nodes[node].children], Len(w.heads) + 1,
             IF Len(doctype_data) = 0
             THEN get_doctype_data(nodes[node].fieldname)[1] ELSE doctype_data,
             nodes[node].path, reset_index),
           head, Len(w.heads) + 1)

RECURSIVE WalkRoots(_, _)
\* for root in doctype_tree: traverse_doctype(root) (lines 371-372)
WalkRoots(w, i) ==
    IF i > Len(entities) THEN w
    ELSE WalkRoots(traverse_doctype(w, entities[i], 0, <<>>, FALSE), i + 1)

\* engine_data_item as it is in result, its child heads under childs_name
engine_data_item(cn, item, heads) ==
    IF cn = "data"
    THEN [id |-> item.id, creation |-> item.creation, fields |-> item.fields,
          data |-> heads]
    ELSE [id |-> item.id, creation |-> item.creation, fields |-> item.fields,
          childs |-> heads]

RECURSIVE HeadsValue(_, _, _)
RECURSIVE ItemsValue(_, _, _)
\* the heads s of the walk heap as the nested lists and dicts they are
HeadsValue(w, s, j) ==
    IF j > Len(s) THEN <<>>
    ELSE <<EngineHead(w.heads[s[j]].path, w.heads[s[j]].formulas,
                      ItemsValue(w, w.heads[s[j]].data, 1))>>
         \o HeadsValue(w, s, j + 1)

ItemsValue(w, s, j) ==
    IF j > Len(s) THEN <<>>
    ELSE <<engine_data_item(childs_name, w.items[s[j]],
                            HeadsValue(w, w.items[s[j]].childs, 1))>>
         \o ItemsValue(w, s, j + 1)

(***************************************************************************)
(* data_to_engine as a state machine                                       *)
(***************************************************************************)
\* the run of build_tree on a catalogue of WalkDecls comes first
InitWalk ==
    /\ pc = "start"
    /\ \E ds \in WalkDecls :
          /\ all_doctypes = CatalogueOf(ds)
          /\ specified_mapping = MappingsOf(ds, 1)
          /\ translations = TranslationsOf(ds)
    /\ nodes = <<>>
    /\ lists = <<>>
    /\ entities = <<>>
    /\ processed_doctypes = {}
    /\ raised = ""
    /\ childs_name = "childs"
    /\ paths = <<>>
    /\ references = <<>>
    /\ result = <<>>
    /\ previous = <<>>
    /\ all_doctype_data = <<>>
    /\ formulas = <<>>
    /\ doctypes_index = <<>>
    /\ AppIdle

\* the call data_to_engine(doctype_tree, formulas, all_doctype_data,
\* childs_name) on the forest that build_tree returned
DataToEngine ==
    /\ pc = "done"
    /\ childs_name' \in {"childs", "data"}
    /\ all_doctype_data' \in Stores
    /\ formulas' \in FormulaGroups
    /\ pc' = "loaded"
    /\ UNCHANGED <<paths, references, result, previous, doctypes_index>>
    /\ UNCHANGED treeVars
    /\ UNCHANGED appVars

\* lines 96-98 and 370-372; an exception ends the run
TraverseRoots ==
    /\ pc = "loaded"
    /\ \E w \in {WalkRoots(NewWalk, 1)} :
          /\ raised' = w.err
          /\ pc' = IF w.err # "" THEN "aborted" ELSE "walked"
          /\ paths' = IF w.err # "" THEN <<>> ELSE w.paths
          /\ doctypes_index' = IF w.err # "" THEN <<>> ELSE w.index
          /\ result' = IF w.err # "" THEN <<>> ELSE HeadsValue(w, w.roots, 1)
    /\ previous' = result'
    /\ UNCHANGED <<all_doctypes, specified_mapping, translations, nodes, lists,
                   entities, processed_doctypes>>
    /\ UNCHANGED <<childs_name, references, all_doctype_data, formulas>>
    /\ UNCHANGED appVars

NextWalk == Next \/ DataToEngine \/ TraverseRoots \/ BuildReferences \/ ReplacePaths

SpecWalk == InitWalk /\ [][NextWalk]_vars

(***************************************************************************)
(* The heads and items of a result, and the inputs of a run                *)
(***************************************************************************)
RECURSIVE HeadsIn(_, _)
RECURSIVE HeadsInItems(_, _)
\* every head of a list of heads, a head before the heads nested in it
HeadsIn(heads, i) ==
    IF i > Len(heads) THEN <<>>
    ELSE <<heads[i]>> \o HeadsInItems(heads[i].data, 1) \o HeadsIn(heads, i + 1)

HeadsInItems(items, i) ==
    IF i > Len(items) THEN <<>>
    ELSE HeadsIn(items[i][childs_name], 1) \o HeadsInItems(items, i + 1)

RECURSIVE ItemsOf(_, _)
ItemsOf(heads, i) ==
    IF i > Len(heads) THEN <<>> ELSE heads[i].data \o ItemsOf(heads, i + 1)

AllHeads == HeadsIn(result, 1)
AllItems == ItemsOf(AllHeads, 1)

\* data_to_engine has returned or has raised
Finished == pc \in {"aborted", "compiled"}

\* no dict of the record store holds a record
EmptyStore == \A i \in 1..Len(all_doctype_data) : Len(all_doctype_data[i].data) = 0

\* one formula group with "tableformulas", every entry with its three keys
WellFormed ==
    /\ Len(formulas) > 0
    /\ "tableformulas" \in DOMAIN formulas[1]
    /\ \A i \in 1..Len(formulas[1].tableformulas) :
          DOMAIN formulas[1].tableformulas[i] =
              {"groupfielddoctype", "groupfieldfieldname", "formula"}

\* the positions of the nodes of the forest that the walk treats as entities
EntityNodes == {k \in 1..Len(Forest) : nodes[Forest[k].node].type = "doctype"}

HasEntry(doctype_name) ==
    \E i \in 1..Len(all_doctype_data) : all_doctype_data[i].doctype = doctype_name

IsPlaceholder(item) ==
    /\ item.id = None
    /\ item.creation = None
    /\ \A j \in 1..Len(item.fields) : item.fields[j].value = None

(***************************************************************************)
(* Claims on the walk of data_to_engine                                    *)
(***************************************************************************)
\* C11: on a record store without any record, and with well-formed formula
\* groups, data_to_engine returns; the result has one head for every entity
\* node of the forest, each head holds exactly one item, the placeholder, and
\* the reference table has a code for the path of every node of the forest.
C11_EmptyDataCompleteness ==
    (Finished /\ EmptyStore /\ WellFormed)
    => /\ pc = "compiled"
       /\ Len(AllHeads) = Cardinality(EntityNodes)
       /\ \A i \in 1..Len(AllHeads) :
             Len(AllHeads[i].data) = 1 /\ IsPlaceholder(AllHeads[i].data[1])
       /\ \A k \in 1..Len(Forest) :
             \E r \in 1..Len(references) :
                references[r].path = nodes[Forest[k].node].path

\* C12: a run on a record store that has no entry for the entity type of a
\* node of the forest does not end in the error of the missing entry.
C12_MissingEntryNoError ==
    (Finished /\ WellFormed
       /\ \E k \in EntityNodes : ~HasEntry(nodes[Forest[k].node].fieldname))
    => raised # "UnboundLocalError"

\* C13: in a forest where no entity node has fieldname_data, the records of
\* the store are consumed along the cursor, so no record is emitted as an
\* item twice: the items of the returned result that are not placeholders
\* have pairwise different ids.
C13_SequentialCursor ==
    (Compiled /\ \A n \in 1..Len(nodes) : ~Truthy(nodes[n].fieldname_data))
    => \A i, j \in 1..Len(AllItems) :
          (i # j /\ AllItems[i].id # None) => AllItems[i].id # AllItems[j].id

ItemIds(items) == [j \in 1..Len(items) |-> items[j].id]
RecordNames(slice) == [j \in 1..Len(slice) |-> slice[j].name]

\* C14: in the forest where B is nested under A with fieldname_data "t_b",
\* the head nested under the item of a record of A holds one item for every
\* element of the array that this record has under "t_b", in order, and only
\* the placeholder when that array is empty.
C14_EmbeddedArray ==
    (Compiled /\ \E n \in 1..Len(nodes) : nodes[n].fieldname_data = Embedded)
    => \A h \in 1..Len(AllHeads) : \A i \in 1..Len(AllHeads[h].data) :
       \A e \in 1..Len(all_doctype_data) :
       \A k \in 1..Len(all_doctype_data[e].data) :
          (/\ all_doctype_data[e].data[k].name = AllHeads[h].data[i].id
           /\ Embedded \in DOMAIN all_doctype_data[e].data[k].fields)
          => \A c \in 1..Len(AllHeads[h].data[i][childs_name]) :
                ItemIds(AllHeads[h].data[i][childs_name][c].data) =
                   IF Len(all_doctype_data[e].data[k].fields[Embedded]) = 0
                   THEN <<None>>
                   ELSE RecordNames(all_doctype_data[e].data[k].fields[Embedded])

\* the code with the 5-digit zero-padded index k
Numbered(k) == <<"e">> \o ZeroPad(Decimal(k), 5) \o <<"v">>

\* C15: the reference table lists the paths in the order in which the walk
\* first touched them, and the k-th of them has the code numbered k, the
\* first one e00001v.
C15_CodesNumberedFromOne ==
    pc \in {"referenced", "compiled"}
    => /\ Len(references) = Len(paths)
       /\ \A k \in 1..Len(references) :
             /\ references[k].path = paths[k]
             /\ references[k].code = Numbered(k)

RECURSIVE TouchedByHeads(_, _)
RECURSIVE TouchedByItems(_, _)
\* the paths of the heads and of the fields of a result, in the order in
\* which the walk made them: each was touched when its head or field was made
TouchedByHeads(heads, i) ==
    IF i > Len(heads) THEN <<>>
    ELSE <<heads[i].path>> \o TouchedByItems(heads[i].data, 1)
         \o TouchedByHeads(heads, i + 1)

TouchedByItems(items, i) ==
    IF i > Len(items) THEN <<>>
    ELSE [j \in 1..Len(items[i].fields) |-> items[i].fields[j].path]
         \o TouchedByHeads(items[i][childs_name], 1)
         \o TouchedByItems(items, i + 1)

RECURSIVE FirstTouched(_, _)
\* a sequence of paths without the repetitions of a path
FirstTouched(s, i) ==
    IF i > Len(s) THEN <<>>
    ELSE (IF \E j \in 1..(i - 1) : s[j] = s[i] THEN <<>> ELSE <<s[i]>>)
         \o FirstTouched(s, i + 1)

\* C15 (amended): the reference table lists the paths in the order in which
\* the walk first touched them, each path once, and the k-th of them has the
\* code numbered k - 1: the first one e00000v.
C15_CodesInTouchOrder ==
    Compiled
    => /\ [k \in 1..Len(references) |-> references[k].path]
            = FirstTouched(TouchedByHeads(previous, 1), 1)
       /\ \A k \in 1..Len(references) : references[k].code = Numbered(k - 1)

\* a returned run in which a head has two items, so that the paths of its
\* fields were touched twice
C15_Witness ==
    /\ Compiled
    /\ Len(references) >= 2
    /\ \E i \in 1..Len(AllHeads) : Len(AllHeads[i].data) >= 2

\* the path fields of a result, in the order of the walk
RECURSIVE PathsOfHeads(_, _)
RECURSIVE PathsOfItems(_, _)
PathsOfHeads(heads, i) ==
    IF i > Len(heads) THEN <<>>
    ELSE <<heads[i].path>>
         \o [j \in 1..Len(heads[i].formulas) |-> heads[i].formulas[j].path]
         \o PathsOfItems(heads[i].data, 1)
         \o PathsOfHeads(heads, i + 1)

PathsOfItems(items, i) ==
    IF i > Len(items) THEN <<>>
    ELSE [j \in 1..Len(items[i].fields) |-> items[i].fields[j].path]
         \o PathsOfHeads(items[i][childs_name], 1)
         \o PathsOfItems(items, i + 1)

\* C16: in what data_to_engine returns, no two codes of the reference table
\* are equal and no two paths of it are equal, and every path field of a
\* head, a field or a formula is a code of the table whose path is the path
\* that the entry had before the substitution.
C16_EveryPathIsACode ==
    Compiled
    => /\ \A i, j \in 1..Len(references) :
             i # j => /\ references[i].code # references[j].code
                      /\ references[i].path # references[j].path
       /\ Len(PathsOfHeads(result, 1)) = Len(PathsOfHeads(previous, 1))
       /\ \A k \in 1..Len(PathsOfHeads(result, 1)) :
             \E r \in 1..Len(references) :
                /\ references[r].code = PathsOfHeads(result, 1)[k]
                /\ references[r].path = PathsOfHeads(previous, 1)[k]

\* C19: on a forest without fieldname_data, where no other key is looked up,
\* formula groups that are not well-formed (no group, a group without
\* "tableformulas", an entry without one of its three keys) do not make
\* data_to_engine raise IndexError or KeyError.
C19_MalformedFormulasSkipped ==
    (Finished /\ ~WellFormed
       /\ \A n \in 1..Len(nodes) : ~Truthy(nodes[n].fieldname_data))
    => raised \notin {"IndexError", "KeyError"}

(***************************************************************************)
(* Further claims on the Reference Compiler                                *)
(***************************************************************************)
RECURSIVE OnlyTokensReplaced(_, _, _, _)
\* new from position j on is orig from position i on with some whole-token
\* occurrences of table paths replaced by their codes, every other
\* character kept, in the same order
OnlyTokensReplaced(orig, new, i, j) ==
    IF i > Len(orig) THEN j > Len(new)
    ELSE \/ /\ j <= Len(new)
            /\ orig[i] = new[j]
            /\ OnlyTokensReplaced(orig, new, i + 1, j + 1)
         \/ \E r \in 1..Len(references) :
               /\ WholeTokenAt(orig, references[r].path, i)
               /\ StartsAt(new, references[r].code, j)
               /\ OnlyTokensReplaced(orig, new, i + Len(references[r].path),
                                     j + Len(references[r].code))

\* C21: every compiled formula value is the original text with some of its
\* whole-token path occurrences replaced by their codes; every other
\* character, the delimiters around the matches included, is kept verbatim
\* and in the same order.
C21_OnlyPathTokensReplaced ==
    Compiled => \A k \in 1..Len(Values) :
                   OnlyTokensReplaced(ValuesBefore[k], Values[k], 1, 1)

\* a compiled formula that was rewritten and holds an operator
C21_Witness ==
    /\ Compiled
    /\ \E k \in 1..Len(Values) :
          /\ Values[k] # ValuesBefore[k]
          /\ \E i \in 1..Len(ValuesBefore[k]) : ValuesBefore[k][i] = "+"
          /\ \E i \in 1..Len(Values[k]) : Values[k][i] = "+"

(***************************************************************************)
(* Further claims on the walk of data_to_engine                            *)
(***************************************************************************)
\* data_to_engine has walked the forest and has not yet compiled the paths
Walked == pc = "walked"

\* the entity node of the forest with this path
NodeOf(path) ==
    CHOOSE n \in {Forest[k].node : k \in EntityNodes} : nodes[n].path = path

\* the children of node n that the walk treats as entities, in order
EntityChildren(n) ==
    SelectSeq(lists[nodes[n].children], LAMBDA c : nodes[c].type = "doctype")

\* the slice that the walk hands to the child entity node m while it is at
\* the record r of the parent: the array r embeds under fieldname_data, else
\* the records of the store for the type of m
SliceOfChild(m, r) ==
    IF Truthy(nodes[m].fieldname_data)
    THEN IF nodes[m].fieldname_data \in DOMAIN r.fields
         THEN r.fields[nodes[m].fieldname_data] ELSE <<>>
    ELSE IF Len(get_doctype_data(nodes[m].fieldname)) = 0 THEN <<>>
         ELSE get_doctype_data(nodes[m].fieldname)[1]

RECURSIVE HeadHoldsSlice(_, _)
\* the head H holds the records of the slice S, one item each and in order,
\* and the i-th item holds one head for every child entity node, made from
\* the slice of the i-th record
HeadHoldsSlice(H, S) ==
    Len(S) >= 1 =>
      /\ Len(H.data) = Len(S)
      /\ \A i \in 1..Len(S) : i <= Len(H.data) =>
            /\ H.data[i].id = S[i].name
            /\ H.data[i].creation = S[i].creation
            /\ Len(H.data[i][childs_name]) = Len(EntityChildren(NodeOf(H.path)))
            /\ \A c \in 1..Len(H.data[i][childs_name]) :
                  c <= Len(EntityChildren(NodeOf(H.path))) =>
                    /\ H.data[i][childs_name][c].path =
                          nodes[EntityChildren(NodeOf(H.path))[c]].path
                    /\ HeadHoldsSlice(
                          H.data[i][childs_name][c],
                          SliceOfChild(EntityChildren(NodeOf(H.path))[c], S[i]))

\* C22: the head of an entity node whose slice holds k >= 1 records holds
\* exactly k items, in record order, the i-th with the name and the creation
\* of the i-th record, and the heads of the child entity nodes made while the
\* i-th record is processed are nested in the i-th item and in no other.
C22_ItemsFollowRecords ==
    Walked => \A r \in 1..Len(result) :
                 HeadHoldsSlice(result[r],
                                SliceOfChild(entities[r], Record(None, <<>>)))

\* a head with two items, each with a nested head that holds a record
C22_Witness ==
    /\ Walked
    /\ \E r \in 1..Len(result) :
          /\ Len(result[r].data) = 2
          /\ \A i \in 1..2 :
                /\ Len(result[r].data[i][childs_name]) = 1
                /\ result[r].data[i][childs_name][1].data[1].id # None
          /\ result[r].data[1][childs_name][1].data[1].id #
                result[r].data[2][childs_name][1].data[1].id

\* every formula group has "tableformulas", every entry its three keys
AllWellFormed ==
    /\ Len(formulas) > 0
    /\ \A g \in 1..Len(formulas) :
          /\ "tableformulas" \in DOMAIN formulas[g]
          /\ \A i \in 1..Len(formulas[g].tableformulas) :
                DOMAIN formulas[g].tableformulas[i] =
                    {"groupfielddoctype", "groupfieldfieldname", "formula"}

RECURSIVE FormulasFrom(_)
\* the formulas of the groups g, g + 1, ... in input order
FormulasFrom(g) ==
    IF g > Len(formulas) THEN <<>>
    ELSE formulas[g].tableformulas \o FormulasFrom(g + 1)

\* the formulas of all groups whose groupfielddoctype is this fieldname
FormulasOf(fieldname) ==
    SelectSeq(FormulasFrom(1), LAMBDA f : f.groupfielddoctype = fieldname)

\* the input formula that a FormulaRef of a head was made from
SourceOf(ref) ==
    Formula(ref.update.doctype, ref.update.fieldname, ref.value)

\* C23: the formulas list of the head of an entity node holds one FormulaRef
\* for every formula, in every group of the formula groups, whose
\* groupfielddoctype is the node's fieldname, in input order, and no other
\* entry; a formula in a group after the first is attached as well.
C23_FormulasOfEveryGroup ==
    (Walked /\ AllWellFormed)
    => \A h \in 1..Len(AllHeads) :
          [j \in 1..Len(AllHeads[h].formulas) |-> SourceOf(AllHeads[h].formulas[j])]
             = FormulasOf(nodes[NodeOf(AllHeads[h].path)].fieldname)

(***************************************************************************)
(* Claims on the Formula Locator                                           *)
(***************************************************************************)
\* the fieldnames of the nodes of the heap, and one that no node has
SearchNames == {nodes[n].fieldname : n \in 1..Len(nodes)} \cup {TZ}

\* the positions of the forest that are a direct child, with this fieldname,
\* of an entity node of this type
Matches(doctype_name, field_name) ==
    {k \in 1..Len(Forest) :
        /\ Forest[k].parent # 0
        /\ IsEntityOf(Forest[k].parent, doctype_name)
        /\ nodes[Forest[k].node].fieldname = field_name}

\* the path of the first match in document order, None when there is none
FirstMatch(doctype_name, field_name) ==
    IF Matches(doctype_name, field_name) = {} THEN None
    ELSE nodes[Forest[CHOOSE k \in Matches(doctype_name, field_name) :
                         \A j \in Matches(doctype_name, field_name) : k <= j].node].path

\* C24: on the returned forest search_fieldname_path gives the path of the
\* first node, in depth-first document order, that is a direct child with
\* the field name of an entity node of the entity type, and None exactly
\* when the forest has no such node.
C24_FirstMatchInDocumentOrder ==
    Returned => \A t \in SearchNames : \A f \in SearchNames :
                   search_fieldname_path(t, f) = FirstMatch(t, f)

(***************************************************************************)
(* Further claims on the Tree Builder                                      *)
(***************************************************************************)
\* C25: build_tree terminates on every catalogue with an acyclic mapping
\* list, also when Table fields name each other in a cycle or a type names
\* itself: it never recurses without end (RecursionError).
C25_BuildTreeTerminates == raised # "RecursionError"

\* the Table fields of the type owner whose options name the type target
TableFieldsTo(owner, target) ==
    {all_doctypes.fields[owner][i] : i \in
        {j \in 1..Len(all_doctypes.fields[owner]) :
            /\ all_doctypes.fields[owner][j].fieldtype = "Table"
            /\ all_doctypes.fields[owner][j].options = target}}

IsMandatory(child, parent) ==
    InSeq([child |-> child, parent |-> parent], specified_mapping)

\* the positions of the entity nodes that are children of an entity node,
\* both of a type of the catalogue
NestedEntities ==
    {k \in 1..Len(Forest) :
        /\ Forest[k].parent # 0
        /\ nodes[Forest[k].node].type = "doctype"
        /\ InCatalogue(nodes[Forest[k].node].fieldname)
        /\ nodes[Forest[k].parent].type = "doctype"
        /\ InCatalogue(nodes[Forest[k].parent].fieldname)}

\* the entity node at position k has the fieldname_data of its origin
OriginKept(k) ==
    IF IsMandatory(nodes[Forest[k].node].fieldname, nodes[Forest[k].parent].fieldname)
    THEN ~Truthy(nodes[Forest[k].node].fieldname_data)
    ELSE \A f \in TableFieldsTo(nodes[Forest[k].parent].fieldname,
                                nodes[Forest[k].node].fieldname) :
            nodes[Forest[k].node].fieldname_data = f.fieldname

\* C26: in the returned forest every entity node made from a Table field of
\* its parent has that field's fieldname as fieldname_data, at every depth,
\* and every entity node made from a mandatory mapping has none.
C26_FieldnameDataOfOrigin ==
    Returned => \A k \in NestedEntities : OriginKept(k)

(***************************************************************************)
(* Claims on records with missing keys                                     *)
(***************************************************************************)
\* a record of the store, of the type of the parent of an entity node with
\* fieldname_data, lacks the key that fieldname_data names
MissingEmbeddedKey ==
    \E k \in EntityNodes : \E e \in 1..Len(all_doctype_data) :
    \E i \in 1..Len(all_doctype_data[e].data) :
        /\ Forest[k].parent # 0
        /\ Truthy(nodes[Forest[k].node].fieldname_data)
        /\ all_doctype_data[e].doctype = nodes[Forest[k].parent].fieldname
        /\ nodes[Forest[k].node].fieldname_data
              \notin DOMAIN all_doctype_data[e].data[i].fields

\* C27: when a parent record lacks the key named by the fieldname_data of a
\* child entity node, data_to_engine does not raise the error of the missing
\* key: the run does not end in KeyError on well-formed formula groups.
C27_MissingKeyNoError ==
    (Finished /\ WellFormed /\ MissingEmbeddedKey) => raised # "KeyError"

(***************************************************************************)
(* The start_generation handler of app.py and the call it makes to         *)
(* create_hierarchical_doctype_structure.  The server runs with            *)
(* async_mode='threading': the handler of every event runs in a thread of  *)
(* its own, and the threads share the global generated_json_data.  Of the  *)
(* entity structure only the names of the roots are kept.                  *)
(***************************************************************************)
\* the keys of doctypes_with_fields
AppDoctypes == <<TA, TB, TC>>

\* the lists that the metadata collaborator returns as child_parent_mapping
MappingLists ==
    {<<>>, <<[child |-> TB, parent |-> TA]>>, <<[child |-> TC, parent |-> TB]>>}

\* what specific_mapping.get_specific_mapping() returns
SpecificMappings == {<<>>, <<[child |-> TB, parent |-> TA]>>}

RECURSIVE AddSpecificMappings(_, _, _)
\* "for mapping in specific_mappings": a specific mapping that the list does
\* not hold is appended to the list itself
AddSpecificMappings(mapping, specific, i) ==
    IF i > Len(specific) THEN mapping
    ELSE AddSpecificMappings(
           IF InSeq(specific[i], mapping) THEN mapping
           ELSE Append(mapping, specific[i]),
           specific, i + 1)

RECURSIVE EnsureNodes(_, _, _)
\* "Ensure parent and child nodes exist": the keys of nodes, in the order in
\* which they were inserted
EnsureNodes(names, mapping, i) ==
    IF i > Len(mapping) THEN names
    ELSE EnsureNodes(
           (IF InSeq(mapping[i].parent, names) THEN names
            ELSE Append(names, mapping[i].parent))
           \o (IF InSeq(mapping[i].child, names)
                  \/ mapping[i].child = mapping[i].parent
               THEN <<>> ELSE <<mapping[i].child>>),
           mapping, i + 1)

\* "Identify and collect root nodes": the nodes that are no mapping's child
RootNodes(names, mapping) ==
    SelectSeq(names, LAMBDA n : \A i \in 1..Len(mapping) : mapping[i].child # n)

\* create_hierarchical_doctype_structure(doctypes_with_fields,
\* child_parent_mapping): the structure it returns, and the list that the
\* caller passed as it is after the call
create_hierarchical_doctype_structure(doctypes_with_fields, mapping) ==
    [entities |-> RootNodes(
                    EnsureNodes(doctypes_with_fields,
                                AddSpecificMappings(mapping, specified_mapping, 1), 1),
                    AddSpecificMappings(mapping, specified_mapping, 1)),
     child_parent_mapping |-> AddSpecificMappings(mapping, specified_mapping, 1)]

Emit(h, event) == emitted' = [emitted EXCEPT ![h] = Append(@, event)]

Goto(h, next) == handler_pc' = [handler_pc EXCEPT ![h] = next]

\* generated_json_data = None (line 140)
ClearGenerated(h) ==
    /\ handler_pc[h] = "idle"
    /\ generated_json_data' = <<>>
    /\ Goto(h, "cleared")
    /\ UNCHANGED <<emitted, entity_structure, child_parent_mapping>>

\* emit('generation_started') (line 141)
EmitStarted(h) ==
    /\ handler_pc[h] = "cleared"
    /\ Emit(h, "generation_started")
    /\ Goto(h, "started")
    /\ UNCHANGED <<generated_json_data, entity_structure, child_parent_mapping>>

\* _generate_entity_structure up to the metadata (lines 61-77): ValueError
\* without the environment, ConnectionError when all_doctypes is None, any
\* other exception of the collaborator, or the child_parent_mapping it gave
FetchDoctypes(h) ==
    /\ handler_pc[h] = "started"
    /\ \/ /\ \E e \in {"ValueError", "ConnectionError", "Exception"} : Goto(h, e)
          /\ UNCHANGED child_parent_mapping
       \/ /\ \E m \in MappingLists :
                child_parent_mapping' = [child_parent_mapping EXCEPT ![h] = m]
          /\ Goto(h, "fetched")
    /\ UNCHANGED <<emitted, generated_json_data, entity_structure>>

\* entity_structure = create_hierarchical_doctype_structure(
\* doctypes_with_fields, child_parent_mapping) and the return (lines 83-91)
CreateStructure(h) ==
    /\ handler_pc[h] = "fetched"
    /\ \E r \in {create_hierarchical_doctype_structure(
                     AppDoctypes, child_parent_mapping[h])} :
          /\ entity_structure' =
                [entity_structure EXCEPT ![h] = <<[entities |-> r.entities]>>]
          /\ child_parent_mapping' =
                [child_parent_mapping EXCEPT ![h] = r.child_parent_mapping]
    /\ Goto(h, "returned")
    /\ UNCHANGED <<emitted, generated_json_data>>

\* generated_json_data = entity_structure (line 147)
StoreGenerated(h) ==
    /\ handler_pc[h] = "returned"
    /\ generated_json_data' = entity_structure[h]
    /\ Goto(h, "stored")
    /\ UNCHANGED <<emitted, entity_structure, child_parent_mapping>>

\* emit('generation_complete', {'success': True}) (line 150)
EmitComplete(h) ==
    /\ handler_pc[h] = "stored"
    /\ Emit(h, "generation_complete")
    /\ Goto(h, "finally")
    /\ UNCHANGED <<generated_json_data, entity_structure, child_parent_mapping>>

\* the two except clauses (lines 152-160)
EmitError(h) ==
    /\ handler_pc[h] \in {"ValueError", "ConnectionError", "Exception"}
    /\ Emit(h, "generation_error")
    /\ Goto(h, "finally")
    /\ UNCHANGED <<generated_json_data, entity_structure, child_parent_mapping>>

\* finally: emit('generation_finished') (lines 161-162)
EmitFinished(h) ==
    /\ handler_pc[h] = "finally"
    /\ Emit(h, "generation_finished")
    /\ Goto(h, "ended")
    /\ UNCHANGED <<generated_json_data, entity_structure, child_parent_mapping>>

handle_start_generation(h) ==
    /\ \/ ClearGenerated(h) \/ EmitStarted(h) \/ FetchDoctypes(h)
       \/ CreateStructure(h) \/ StoreGenerated(h) \/ EmitComplete(h)
       \/ EmitError(h) \/ EmitFinished(h)
    /\ UNCHANGED <<pc, treeVars, compileVars, walkVars>>

InitApp ==
    /\ pc = "serving"
    /\ specified_mapping \in SpecificMappings
    /\ all_doctypes = [order |-> <<>>, fields |-> <<>>]
    /\ translations = {}
    /\ nodes = <<>>
    /\ lists = <<>>
    /\ entities = <<>>
    /\ processed_doctypes = {}
    /\ raised = ""
    /\ childs_name = "childs"
    /\ paths = <<>>
    /\ references = <<>>
    /\ result = <<>>
    /\ previous = <<>>
    /\ all_doctype_data = <<>>
    /\ formulas = <<>>
    /\ doctypes_index = <<>>
    /\ AppIdle

NextApp == \E h \in Handlers : handle_start_generation(h)

SpecApp == InitApp /\ [][NextApp]_vars

\* every thread of a handler gets to run: a handler that has started ends
FairApp == SpecApp /\ \A h \in Handlers : WF_vars(handle_start_generation(h))

(***************************************************************************)
(* Claims on the inputs of the calls and on the handler                    *)
(***************************************************************************)
\* data_to_engine is running on its arguments
InDataToEngine == pc \in {"loaded", "walked", "referenced"}

\* C28: building and compiling leave their inputs unchanged: no step of
\* build_tree changes the catalogue or the mandatory mappings, no step of
\* data_to_engine changes the forest or the record store, and the call of
\* create_hierarchical_doctype_structure leaves the mapping list of its
\* caller as it was.
C28_InputsUnchanged ==
    [][/\ all_doctypes' = all_doctypes
       /\ pc \in {"start", "created", "mapped"} =>
             specified_mapping' = specified_mapping
       /\ InDataToEngine =>
             /\ nodes' = nodes /\ lists' = lists /\ entities' = entities
             /\ all_doctype_data' = all_doctype_data
       /\ \A h \in Handlers :
             (handler_pc[h] = "fetched" /\ handler_pc'[h] = "returned")
             => child_parent_mapping'[h] = child_parent_mapping[h]]_vars

\* the events of a handler that has run to its end
EventsOfARun ==
    {<<"generation_started", "generation_complete", "generation_finished">>,
     <<"generation_started", "generation_error", "generation_finished">>}

\* C29: a handler of start_generation emits generation_started first, then
\* exactly one of generation_complete and generation_error, then
\* generation_finished last, and at the step where it ends the global
\* generated_json_data is not None only if it emitted generation_complete.
C29_EventsThenGlobal ==
    [][\A h \in Handlers :
         (handler_pc[h] = "finally" /\ handler_pc'[h] = "ended")
         => /\ emitted'[h] \in EventsOfARun
            /\ generated_json_data' # <<>>
                  => InSeq("generation_complete", emitted'[h])]_vars

(***************************************************************************)
(* Claim on the paths of the forest                                        *)
(***************************************************************************)
\* C30: in the forest returned by build_tree no two distinct nodes have the
\* same path.
C30_PathsAreUnique ==
    Returned => \A j, k \in 1..Len(Forest) :
                   Forest[j].node # Forest[k].node
                   => nodes[Forest[j].node].path # nodes[Forest[k].node].path

====
